---- MODULE Spec2Model ----
(***************************************************************************)
(* ai-kb (src/src/index.js): a command-line tool that reads '.ai-kb-config',*)
(* resolves every section's glob patterns against the project tree and     *)
(* writes one markdown artifact 'ai-kb-<section>.md' per section.          *)
(*                                                                         *)
(* Text is modelled as a sequence of atoms: an atom is a character that    *)
(* the code inspects ("+", "-", "[", "]", "/", "*", " ", ...) or a run of   *)
(* characters the code never looks inside (a name such as "src", an        *)
(* extension such as ".js").  The glob atom "**" is the globstar segment.  *)
(*                                                                         *)
(* index.js holds three copies of the program: lines 1-246 ("plain"),      *)
(* lines 247-556 ("tree", which adds the --tree mode) and lines 557-798    *)
(* ("env", whose getMatchingFiles differs).                                *)
(***************************************************************************)
EXTENDS Integers, Sequences, FiniteSets, TLC

VARIABLES variant, argvTree, configExists, configContent, tree,
          pc, config, idx, pi, files, failedPats, markdown, ioFails,
          written, resolved, exitCode, faults, content, sensitive, normalized,
          tree0, fileName, rendered

vars == <<variant, argvTree, configExists, configContent, tree,
          pc, config, idx, pi, files, failedPats, markdown, ioFails,
          written, resolved, exitCode, faults, content, sensitive, normalized,
          tree0, fileName, rendered>>

runVars == <<variant, argvTree, configExists, configContent, tree,
             pc, config, idx, pi, files, failedPats, markdown, ioFails,
             written, resolved, exitCode, faults>>

normVars == <<content, sensitive, normalized>>

\* the project tree as the run found it; the file handed to the callback of
\* generateMarkdown and the block it gave
auxVars == <<tree0, fileName, rendered>>

-----------------------------------------------------------------------------
(* Bounds of the model *)

\* most lines of a configuration text
MaxLines == 4
\* most injected environment failures (glob, read, write) in one run
MaxFaults == 1
\* most atoms of a file content handed to removeWhitespace
MaxContent == 5
\* how many times in a row removeWhitespace is applied to a content
MaxPasses == 2
\* most atoms of the content of a file handed to the generateMarkdown callback
MaxRenderContent == 4
\* most lines of a configuration text handed to readConfig alone
MaxConfigLines == 4

-----------------------------------------------------------------------------
(* String helpers (JavaScript String.prototype) *)

Range(s) == {s[i] : i \in DOMAIN s}

\* s.startsWith(a) for a one-character a
startsWith(s, a) == Len(s) > 0 /\ s[1] = a

\* s.endsWith(a) for a one-character a
endsWith(s, a) == Len(s) > 0 /\ s[Len(s)] = a

\* s.slice(1)
slice1(s) == IF Len(s) = 0 THEN <<>> ELSE Tail(s)

\* s.slice(1, -1)
sliceInner(s) == IF Len(s) < 2 THEN <<>> ELSE SubSeq(s, 2, Len(s) - 1)

\* the whitespace characters (\s, and what trim strips) of the model
WhiteSpace == {" ", "\t", "\r", "\n"}

RECURSIVE trimStart(_)
trimStart(s) ==
  IF s # <<>> /\ Head(s) \in WhiteSpace THEN trimStart(Tail(s)) ELSE s

RECURSIVE trimEnd(_)
trimEnd(s) ==
  IF s # <<>> /\ s[Len(s)] \in WhiteSpace
  THEN trimEnd(SubSeq(s, 1, Len(s) - 1)) ELSE s

trim(s) == trimStart(trimEnd(s))

\* s.split(sep): always at least one piece
RECURSIVE split(_, _)
split(s, sep) ==
  IF \A i \in DOMAIN s : s[i] # sep THEN <<s>>
  ELSE LET k == CHOOSE i \in DOMAIN s : s[i] = sep /\ \A j \in 1..(i-1) : s[j] # sep
       IN <<SubSeq(s, 1, k - 1)>> \o split(SubSeq(s, k + 1, Len(s)), sep)

\* pieces.join(sep)
RECURSIVE join(_, _)
join(pieces, sep) ==
  IF pieces = <<>> THEN <<>>
  ELSE IF Len(pieces) = 1 THEN pieces[1]
  ELSE pieces[1] \o <<sep>> \o join(Tail(pieces), sep)

\* s.includes(needle)
includes(s, needle) ==
  \E i \in 1..(Len(s) - Len(needle) + 1) :
     SubSeq(s, i, i + Len(needle) - 1) = needle

\* s.replace(a, '') for a literal a: the first occurrence only
replaceFirst(s, a) ==
  IF ~includes(s, a) THEN s
  ELSE LET k == CHOOSE i \in 1..(Len(s) - Len(a) + 1) :
                   /\ SubSeq(s, i, i + Len(a) - 1) = a
                   /\ \A j \in 1..(i-1) : SubSeq(s, j, j + Len(a) - 1) # a
       IN SubSeq(s, 1, k - 1) \o SubSeq(s, k + Len(a), Len(s))

-----------------------------------------------------------------------------
(* The project tree *)

\* every regular file the model's project tree can hold, in the order a
\* directory walk reports them
Universe ==
  << <<"src", "/", "a", ".js">>,
     <<"src", "/", "legacy", "/", "a", ".js">>,
     <<"node_modules", "/", "pkg-a", "/", "index", ".js">>,
     <<"ai-kb-", "app", ".md">>,
     <<"ai-kb-", "lib", ".md">>,
     <<"ai-kb-tree", ".txt">>,
     <<"ai-kb-", "1", ".md">>,
     <<"ai-kb-", "2", ".md">> >>

\* every directory of those files
DirUniverse ==
  << <<"src">>,
     <<"src", "/", "legacy">>,
     <<"node_modules">>,
     <<"node_modules", "/", "pkg-a">> >>

\* the files of the project before the run (generated artifacts absent)
SourceFiles == {Universe[1], Universe[2], Universe[3]}

\* the project trees a run can start from
Trees == {SourceFiles, {Universe[1], Universe[3]}, {Universe[3]}}

IsPrefix(d, f) == Len(d) < Len(f) /\ SubSeq(f, 1, Len(d)) = d

\* the directories that exist in tree t
dirsOf(t) == {d \in Range(DirUniverse) : \E f \in t : IsPrefix(d \o <<"/">>, f)}

-----------------------------------------------------------------------------
(* glob: the matcher of the 'glob' package, for the patterns of the model *)

\* one path segment against one pattern segment; "*" stands for any run of
\* characters within the segment
RECURSIVE SegMatch(_, _)
SegMatch(p, f) ==
  IF p = <<>> THEN f = <<>>
  ELSE IF Head(p) = "*"
       THEN SegMatch(Tail(p), f) \/ (f # <<>> /\ SegMatch(p, Tail(f)))
       ELSE f # <<>> /\ Head(p) = Head(f) /\ SegMatch(Tail(p), Tail(f))

\* a list of path segments against a list of pattern segments; the segment
\* "**" stands for any number of directories
RECURSIVE SegsMatch(_, _)
SegsMatch(ps, fs) ==
  IF ps = <<>> THEN fs = <<>>
  ELSE IF Head(ps) = <<"**">>
       THEN SegsMatch(Tail(ps), fs) \/ (fs # <<>> /\ SegsMatch(ps, Tail(fs)))
       ELSE fs # <<>> /\ SegMatch(Head(ps), Head(fs)) /\ SegsMatch(Tail(ps), Tail(fs))

\* path f matches glob expression g
PathMatch(g, f) == SegsMatch(split(g, "/"), split(f, "/"))

\* the paths of the universe an 'ignore' option made of the globs igs removes
IgnoreSet(igs) ==
  {e \in Range(Universe) \cup Range(DirUniverse) :
     \E i \in DOMAIN igs : PathMatch(igs[i], e)}

\* glob(pattern, {ignore, nodir}) on tree t: the matching entries, files in
\* walk order and then (without nodir) directories
glob(pattern, ignored, nodir, t) ==
  LET hit(e) == PathMatch(pattern, e) /\ e \notin ignored
      isFile(e) == e \in t /\ hit(e)
      isDir(e) == e \in dirsOf(t) /\ hit(e)
  IN SelectSeq(Universe, isFile)
       \o (IF nodir THEN <<>> ELSE SelectSeq(DirUniverse, isDir))

-----------------------------------------------------------------------------
(* Program constants *)

\* WHITESPACE_SENSITIVE_EXTENSIONS without its '.yml' entry
SensitiveExtensionsNoYml ==
  {".py", ".yaml", ".jade", ".haml", ".slim", ".coffee", ".pug", ".styl"}

\* const WHITESPACE_SENSITIVE_EXTENSIONS
WHITESPACE_SENSITIVE_EXTENSIONS ==
  {".py", ".yaml", ".yml", ".jade", ".haml", ".slim", ".coffee", ".pug", ".styl"}

\* 'dir/**'
DirGlob(d) == <<d, "/", "**">>
\* '**/*.ext'
ExtGlob(x) == <<"**", "/", "*", x>>

\* const GLOBAL_IGNORES, entry by entry in source order
GLOBAL_IGNORES ==
  << DirGlob("node_modules"), <<"package-lock", ".json">>, <<"npm-debug", ".log">>,
     <<"yarn", ".lock">>, <<"yarn-error", ".log">>,
     <<"pnpm-lock", ".yaml">>,
     <<"bun", ".lockb">>,
     <<"deno", ".lock">>,
     DirGlob("vendor"), <<"composer", ".lock">>,
     DirGlob("__pycache__"), ExtGlob(".pyc"), ExtGlob(".pyo"), ExtGlob(".pyd"),
     <<".Python">>, <<"pip-log", ".txt">>, <<"pip-delete-this-directory", ".txt">>,
     DirGlob(".venv"), DirGlob("venv"), DirGlob("ENV"), DirGlob("env"),
     <<"Gemfile", ".lock">>, DirGlob(".bundle"),
     DirGlob("target"), ExtGlob(".class"),
     DirGlob(".gradle"), DirGlob("build"),
     <<"pom.xml", ".tag">>, <<"pom.xml", ".releaseBackup">>,
     <<"pom.xml", ".versionsBackup">>, <<"pom.xml", ".next">>,
     DirGlob("bin"), DirGlob("obj"), ExtGlob(".suo"), ExtGlob(".user"),
     <<"go", ".sum">>,
     <<"Cargo", ".lock">>, DirGlob("target"),
     DirGlob(".git"), DirGlob(".svn"), DirGlob(".hg"), <<".DS_Store">>, <<"Thumbs", ".db">>,
     <<".env">>, <<".env", ".local">>, <<".env", ".development", ".local">>,
     <<".env", ".test", ".local">>, <<".env", ".production", ".local">>,
     ExtGlob(".env"), <<"**", "/", "*", ".env", ".", "*">>,
     DirGlob(".svelte-kit"), DirGlob(".next"), DirGlob(".nuxt"), DirGlob(".vuepress"),
     DirGlob(".cache"), DirGlob("dist"), DirGlob("tmp"),
     <<"ai-kb-", "*", ".md">> >>

\* what { ignore: GLOBAL_IGNORES } removes from a glob result
CatalogueIgnored == IgnoreSet(GLOBAL_IGNORES)

\* what { ignore: [] } removes from a glob result
NothingIgnored == IgnoreSet(<<>>)

-----------------------------------------------------------------------------
(* readConfig *)

Digits == <<"0", "1", "2", "3", "4", "5", "6", "7", "8", "9">>

DigitVal(a) == (CHOOSE i \in DOMAIN Digits : Digits[i] = a) - 1

\* a property key that is a canonical array index ("0", "7", "12")
IsIndexKey(k) ==
  /\ k # <<>>
  /\ \A i \in DOMAIN k : k[i] \in Range(Digits)
  /\ (Len(k) > 1 => k[1] # "0")

RECURSIVE IndexVal(_)
IndexVal(k) ==
  IF k = <<>> THEN 0
  ELSE 10 * IndexVal(SubSeq(k, 1, Len(k) - 1)) + DigitVal(k[Len(k)])

\* config[k] = v on an object kept as its list of [key, value] in creation
\* order: an existing key keeps its place
SetKey(obj, k, v) ==
  IF \E i \in DOMAIN obj : obj[i].key = k
  THEN [i \in DOMAIN obj |-> IF obj[i].key = k THEN [key |-> k, value |-> v] ELSE obj[i]]
  ELSE Append(obj, [key |-> k, value |-> v])

GetKey(obj, k) == (CHOOSE e \in Range(obj) : e.key = k).value

\* the body of the forEach callback of readConfig on one raw line
configLine(st, raw) ==
  LET line == trim(raw) IN
  IF startsWith(line, "[") /\ endsWith(line, "]")
  THEN [cur |-> sliceInner(line), config |-> SetKey(st.config, sliceInner(line), <<>>)]
  ELSE IF st.cur # <<>> /\ line # <<>>
       THEN [cur |-> st.cur,
             config |-> SetKey(st.config, st.cur, Append(GetKey(st.config, st.cur), line))]
       ELSE st

RECURSIVE configFold(_, _)
configFold(st, lines) ==
  IF lines = <<>> THEN st ELSE configFold(configLine(st, Head(lines)), Tail(lines))

\* readConfig() once the file is known to exist
readConfig(text) ==
  configFold([cur |-> <<>>, config |-> <<>>], split(text, "\n")).config

\* the keys of obj that are array indices, ascending
RECURSIVE IndexEntries(_)
IndexEntries(es) ==
  IF es = {} THEN <<>>
  ELSE LET m == CHOOSE e \in es : \A o \in es : IndexVal(e.key) <= IndexVal(o.key)
       IN <<m>> \o IndexEntries(es \ {m})

\* Object.entries(obj): array-index keys ascending, then the others in
\* creation order
ObjectEntries(obj) ==
  LET isIdx(e) == IsIndexKey(e.key)
      notIdx(e) == ~IsIndexKey(e.key)
  IN IndexEntries({e \in Range(obj) : isIdx(e)}) \o SelectSeq(obj, notIdx)

-----------------------------------------------------------------------------
(* getMatchingFiles, one glob call at a time *)

\* ignore.replace('/**', '').replace('**/', '')
ignoreStem(ig) == replaceFirst(replaceFirst(ig, <<"/", "**">>), <<"**", "/">>)

\* lines 699-700: does the raw pattern mention a catalogue entry?
explicitInclude(pattern) ==
  \E i \in DOMAIN GLOBAL_IGNORES : includes(pattern, ignoreStem(GLOBAL_IGNORES[i]))

\* includeGlobPlain with the catalogue passed as 'ignore' for every pattern
includeGlobAlwaysIgnoring(pattern, t) ==
  glob(IF startsWith(pattern, "+") THEN slice1(pattern) ELSE pattern,
       CatalogueIgnored, TRUE, t)

\* lines 146-158 / 435-447: the result of the glob call for one include pattern
includeGlobPlain(pattern, t) ==
  LET globPattern == IF startsWith(pattern, "+") THEN slice1(pattern) ELSE pattern
      ignored == IF startsWith(pattern, "+") THEN NothingIgnored ELSE CatalogueIgnored
  IN glob(globPattern, ignored, TRUE, t)

\* lines 699-711: the glob call of the third copy; the '!'-prefixed entries of
\* its pattern list are taken to subtract, as that code intends
includeGlobEnv(pattern, t) ==
  IF explicitInclude(pattern)
  THEN glob(pattern, NothingIgnored, FALSE, t)
  ELSE glob(pattern, CatalogueIgnored, FALSE, t)

includeGlob(v, pattern, t) ==
  IF v = "env" THEN includeGlobEnv(pattern, t) ELSE includeGlobPlain(pattern, t)

\* excludeGlob with the catalogue passed as 'ignore'
excludeGlobIgnoring(v, pattern, t) == glob(pattern, CatalogueIgnored, v # "env", t)

\* lines 172 / 461 / 724: the glob call for one exclude pattern
excludeGlob(v, pattern, t) == glob(pattern, NothingIgnored, v # "env", t)

\* line 160: files = files.concat(matchedFiles)
concatMatches(fs, matched) == fs \o matched

\* line 174: files = files.filter(file => !excludeFiles.includes(file))
filterExcluded(fs, excludeFiles) ==
  LET keep(f) == f \notin Range(excludeFiles) IN SelectSeq(fs, keep)

-----------------------------------------------------------------------------
(* main: the patterns of the section being processed *)

isExclude(p) == startsWith(p, "-")
notExclude(p) == ~startsWith(p, "-")

\* line 226
includePatternsOf(patterns) == SelectSeq(patterns, notExclude)

\* line 227
excludePatternsOf(patterns) ==
  LET ex == SelectSeq(patterns, isExclude) IN [i \in DOMAIN ex |-> slice1(ex[i])]

entries == ObjectEntries(config)
section == entries[idx].key
patterns == entries[idx].value
includePatterns == includePatternsOf(patterns)
excludePatterns == excludePatternsOf(patterns)

\* line 234
outputFile(name) == <<"ai-kb-">> \o name \o <<".md">>

\* the extensions of the file names of the model, with extension.slice(1)
ExtSlice1 ==
  [x \in {".js", ".md", ".txt", ".py", ".yaml", ".yml", ".jade", ".haml", ".slim",
          ".coffee", ".pug", ".styl", ".PY"} |->
     CASE x = ".js" -> "js" [] x = ".md" -> "md" [] x = ".txt" -> "txt"
       [] x = ".py" -> "py" [] x = ".yaml" -> "yaml" [] x = ".yml" -> "yml"
       [] x = ".jade" -> "jade" [] x = ".haml" -> "haml" [] x = ".slim" -> "slim"
       [] x = ".coffee" -> "coffee" [] x = ".pug" -> "pug" [] x = ".styl" -> "styl"
       [] x = ".PY" -> "PY"]

\* path.extname(file): the last atom of the name when it is an extension
extname(file) ==
  IF file # <<>> /\ file[Len(file)] \in DOMAIN ExtSlice1 THEN file[Len(file)] ELSE ""

-----------------------------------------------------------------------------
(* removeWhitespace *)

Brackets == {"(", ")", "{", "}", "[", "]"}

\* the rest of s after its leading run of whitespace
RECURSIVE skipSpace(_)
skipSpace(s) == IF s # <<>> /\ Head(s) \in WhiteSpace THEN skipSpace(Tail(s)) ELSE s

\* .replace(/\s+/g, ' ')
RECURSIVE collapseSpace(_)
collapseSpace(s) ==
  IF s = <<>> THEN <<>>
  ELSE IF Head(s) \in WhiteSpace THEN <<" ">> \o collapseSpace(skipSpace(s))
  ELSE <<Head(s)>> \o collapseSpace(Tail(s))

\* .replace(/\s*([(){}\[\]])\s*/g, '$1'): the leftmost match at each position
RECURSIVE stripBrackets(_)
stripBrackets(s) ==
  IF s = <<>> THEN <<>>
  ELSE LET r == skipSpace(s) IN
       IF r # <<>> /\ Head(r) \in Brackets
       THEN <<Head(r)>> \o stripBrackets(skipSpace(Tail(r)))
       ELSE <<Head(s)>> \o stripBrackets(Tail(s))

\* stripAfter without the g flag: the first match only
RECURSIVE stripAfterOnce(_, _)
stripAfterOnce(s, c) ==
  IF s = <<>> THEN <<>>
  ELSE IF Head(s) = c /\ Tail(s) # <<>> /\ Head(Tail(s)) \in WhiteSpace
       THEN <<c>> \o skipSpace(Tail(s))
       ELSE <<Head(s)>> \o stripAfterOnce(Tail(s), c)

\* .replace(/c\s+/g, 'c') for the character c
RECURSIVE stripAfter(_, _)
stripAfter(s, c) ==
  IF s = <<>> THEN <<>>
  ELSE IF Head(s) = c THEN <<c>> \o stripAfter(skipSpace(Tail(s)), c)
  ELSE <<Head(s)>> \o stripAfter(Tail(s), c)

mapTrimEnd(lines) == [i \in DOMAIN lines |-> trimEnd(lines[i])]
mapTrim(lines) == [i \in DOMAIN lines |-> trim(lines[i])]
notBlank(line) == trim(line) # <<>>
notEmpty(line) == line # <<>>

\* lines 189-192
removeSensitive(c) ==
  join(SelectSeq(mapTrimEnd(split(c, "\n")), notBlank), "\n")

\* lines 195-202
removeAggressive(c) ==
  LET joined == join(SelectSeq(mapTrim(split(c, "\n")), notEmpty), " ")
  IN stripAfter(stripAfter(stripBrackets(collapseSpace(joined)), ";"), ",")

removeWhitespace(c, isWhitespaceSensitive) ==
  IF isWhitespaceSensitive THEN removeSensitive(c) ELSE removeAggressive(c)

-----------------------------------------------------------------------------
(* generateMarkdown *)

\* what fs.readFile(file, 'utf8') gives for the files of the model
readFile(file) ==
  IF extname(file) = ".js"
  THEN <<"f", "(", ")", " ", "{", "\n", " ", " ", "x", ";", "\n", "}", "\n">>
  ELSE <<"#", " ", "kb", "\n">>

\* lines 210-214: the rendered block of a file whose content is c
renderContent(file, c) ==
  LET extension == extname(file)
      isWhitespaceSensitive == extension \in WHITESPACE_SENSITIVE_EXTENSIONS
  IN [file |-> file,
      lang |-> IF extension = "" THEN "" ELSE ExtSlice1[extension],
      body |-> removeWhitespace(c, isWhitespaceSensitive)]

\* lines 209-214: the rendered block of one file
renderFile(file) == renderContent(file, readFile(file))

\* lines 208-216 when every read succeeds: one block per entry of files
generateMarkdown(fs) == [i \in DOMAIN fs |-> renderFile(fs[i])]


-----------------------------------------------------------------------------
(* The configurations of the model *)

Headers == { <<"[", "app", "]">>, <<"[", "lib", "]">> }

PatternLines ==
  { <<"src", "/", "**", "/", "*", ".js">>,
    <<"src", "/", "a", ".js">>,
    <<"node_modules", "/", "**", "/", "*", ".js">>,
    <<"+", "node_modules", "/", "pkg-a", "/", "**", "/", "*", ".js">>,
    <<"-", "src", "/", "legacy", "/", "a", ".js">>,
    <<"-", "node_modules", "/", "**", "/", "*", ".js">> }

\* configuration texts: a header line, then up to MaxLines - 1 further lines
ConfigTexts ==
  { join(ls, "\n") :
      ls \in { l \in UNION { [1..n -> Headers \cup PatternLines] : n \in 1..MaxLines } :
                 l[1] \in Headers } }

Variants == {"plain", "tree", "env"}

treeFile == <<"ai-kb-tree", ".txt">>

-----------------------------------------------------------------------------
(* State machine of one run of main *)

\* a run of one of the copies vs, on one of the configuration texts and one of
\* the project trees
InitWith(vs, texts, trees) ==
  /\ variant \in vs
  /\ argvTree \in (IF variant = "tree" THEN BOOLEAN ELSE {FALSE})
  /\ configExists \in BOOLEAN
  /\ configContent \in (IF configExists THEN texts ELSE {<<>>})
  /\ tree \in trees
  /\ pc = "start"
  /\ config = <<>>
  /\ idx = 0
  /\ pi = 0
  /\ files = <<>>
  /\ failedPats = {}
  /\ markdown = <<>>
  /\ ioFails = {}
  /\ written = <<>>
  /\ resolved = <<>>
  /\ exitCode = -1
  /\ faults = 0
  /\ content = <<>>
  /\ sensitive = FALSE
  /\ normalized = <<>>
  /\ tree0 = tree
  /\ fileName = <<>>
  /\ rendered = <<>>

InitRun(vs) == InitWith(vs, ConfigTexts, Trees)

\* the copies whose getMatchingFiles is lines 133-183 (= 422-472)
Init == InitRun({"plain", "tree"})

\* all three copies
InitAll == InitRun(Variants)

treeMode == variant = "tree" /\ argvTree

\* an environment failure may be injected while the budget lasts
Fault == faults < MaxFaults /\ faults' = faults + 1

\* onConfigMissing without the process.exit(1): readConfig goes on
onConfigMissingGoesOn == [pc |-> "section", exitCode |-> -1]

\* lines 111-114: what readConfig does when the file is missing
onConfigMissing == [pc |-> "exit", exitCode |-> 1]

\* lines 243-246: what the catch handler of main() does with a rejection
onMainRejected == [pc |-> "exit", exitCode |-> 1]

\* afterGlobError with the accumulated list lost
afterGlobErrorReset(fs) == <<>>

\* lines 161-163 / 175-177: the file list after a glob call threw
afterGlobError(fs) == fs

\* lines 512-525: --tree writes the tree file and returns
TreeModeOk ==
  /\ pc = "start" /\ treeMode
  /\ written' = Append(written, [file |-> treeFile, body |-> <<"# Directory Structure">>])
  /\ tree' = tree \cup {treeFile}
  /\ pc' = "done" /\ exitCode' = 0
  /\ UNCHANGED <<variant, argvTree, configExists, configContent, config, idx, pi, files,
                 failedPats, markdown, ioFails, resolved, faults, normVars, auxVars>>

\* lines 522-525: generateTree or the write threw
TreeModeFail ==
  /\ pc = "start" /\ treeMode
  /\ Fault
  /\ pc' = "exit" /\ exitCode' = 1
  /\ UNCHANGED <<variant, argvTree, configExists, configContent, tree, config, idx, pi,
                 files, failedPats, markdown, ioFails, written, resolved, normVars, auxVars>>

\* lines 109-114, 221: the configuration file does not exist
ConfigMissing ==
  /\ pc = "start" /\ ~treeMode /\ ~configExists
  /\ pc' = onConfigMissing.pc /\ exitCode' = onConfigMissing.exitCode
  /\ config' = <<>> /\ idx' = 1
  /\ UNCHANGED <<variant, argvTree, configExists, configContent, tree, pi, files,
                 failedPats, markdown, ioFails, written, resolved, faults, normVars, auxVars>>

\* lines 115-129, 221
ReadConfig ==
  /\ pc = "start" /\ ~treeMode /\ configExists
  /\ config' = readConfig(configContent)
  /\ idx' = 1
  /\ pc' = "section"
  /\ UNCHANGED <<variant, argvTree, configExists, configContent, tree, pi, files,
                 failedPats, markdown, ioFails, written, resolved, exitCode, faults,
                 normVars, auxVars>>

\* where getMatchingFiles goes after include pattern number k
afterInclude(k) ==
  IF k + 1 <= Len(includePatterns) THEN [pc |-> "include", pi |-> k + 1]
  ELSE IF Len(excludePatterns) > 0 THEN [pc |-> "exclude", pi |-> 1]
  ELSE [pc |-> "resolved", pi |-> 0]

\* where getMatchingFiles goes after exclude pattern number k
afterExclude(k) ==
  IF k + 1 <= Len(excludePatterns) THEN [pc |-> "exclude", pi |-> k + 1]
  ELSE [pc |-> "resolved", pi |-> 0]

\* lines 224-229, 134: the loop of main takes the next section
BeginSection ==
  /\ pc = "section" /\ idx <= Len(entries)
  /\ files' = <<>>
  /\ failedPats' = {}
  /\ pc' = afterInclude(0).pc /\ pi' = afterInclude(0).pi
  /\ UNCHANGED <<variant, argvTree, configExists, configContent, tree, config, idx,
                 markdown, ioFails, written, resolved, exitCode, faults, normVars, auxVars>>

\* line 241: no section is left, main returns
Finish ==
  /\ pc = "section" /\ idx > Len(entries)
  /\ pc' = "done" /\ exitCode' = 0
  /\ UNCHANGED <<variant, argvTree, configExists, configContent, tree, config, idx, pi,
                 files, failedPats, markdown, ioFails, written, resolved, faults,
                 normVars, auxVars>>

\* lines 138-160: one include pattern resolves
IncludeOk ==
  /\ pc = "include"
  /\ files' = concatMatches(files, includeGlob(variant, includePatterns[pi], tree))
  /\ pc' = afterInclude(pi).pc /\ pi' = afterInclude(pi).pi
  /\ UNCHANGED <<variant, argvTree, configExists, configContent, tree, config, idx,
                 failedPats, markdown, ioFails, written, resolved, exitCode, faults,
                 normVars, auxVars>>

\* lines 161-163: the glob call of one include pattern throws
IncludeFail ==
  /\ pc = "include"
  /\ Fault
  /\ files' = afterGlobError(files)
  /\ failedPats' = failedPats \cup {<<"include", pi>>}
  /\ pc' = afterInclude(pi).pc /\ pi' = afterInclude(pi).pi
  /\ UNCHANGED <<variant, argvTree, configExists, configContent, tree, config, idx,
                 markdown, ioFails, written, resolved, exitCode, normVars, auxVars>>

\* lines 169-174: one exclude pattern resolves
ExcludeOk ==
  /\ pc = "exclude"
  /\ files' = filterExcluded(files, excludeGlob(variant, excludePatterns[pi], tree))
  /\ pc' = afterExclude(pi).pc /\ pi' = afterExclude(pi).pi
  /\ UNCHANGED <<variant, argvTree, configExists, configContent, tree, config, idx,
                 failedPats, markdown, ioFails, written, resolved, exitCode, faults,
                 normVars, auxVars>>

\* lines 175-177: the glob call of one exclude pattern throws
ExcludeFail ==
  /\ pc = "exclude"
  /\ Fault
  /\ files' = afterGlobError(files)
  /\ failedPats' = failedPats \cup {<<"exclude", pi>>}
  /\ pc' = afterExclude(pi).pc /\ pi' = afterExclude(pi).pi
  /\ UNCHANGED <<variant, argvTree, configExists, configContent, tree, config, idx,
                 markdown, ioFails, written, resolved, exitCode, normVars, auxVars>>

\* the record main has of a section once getMatchingFiles returned
resolution == [section |-> section, files |-> files, failed |-> failedPats]

\* lines 232, 237-239: no file matched, the section is skipped
SkipSection ==
  /\ pc = "resolved" /\ Len(files) = 0
  /\ resolved' = Append(resolved, resolution)
  /\ idx' = idx + 1
  /\ pc' = "section"
  /\ UNCHANGED <<variant, argvTree, configExists, configContent, tree, config, pi, files,
                 failedPats, markdown, ioFails, written, exitCode, faults, normVars, auxVars>>

\* lines 232-233, 207-217: every file is read and rendered
GenerateOk ==
  /\ pc = "resolved" /\ Len(files) > 0
  /\ \A i \in DOMAIN files : files[i] \notin dirsOf(tree)
  /\ resolved' = Append(resolved, resolution)
  /\ markdown' = generateMarkdown(files)
  /\ pc' = "write"
  /\ UNCHANGED <<variant, argvTree, configExists, configContent, tree, config, idx, pi,
                 files, failedPats, ioFails, written, exitCode, faults, normVars, auxVars>>

\* lines 209, 243-246: one fs.readFile rejects (the entry is a directory, or the
\* file cannot be read any more), Promise.all rejects and so does main
GenerateFail ==
  /\ pc = "resolved" /\ Len(files) > 0
  /\ \E i \in DOMAIN files :
       /\ \/ files[i] \in dirsOf(tree) /\ faults' = faults
          \/ Fault
       /\ ioFails' = ioFails \cup {<<"read", files[i]>>}
  /\ resolved' = Append(resolved, resolution)
  /\ pc' = onMainRejected.pc /\ exitCode' = onMainRejected.exitCode
  /\ UNCHANGED <<variant, argvTree, configExists, configContent, tree, config, idx, pi,
                 files, failedPats, markdown, written, normVars, auxVars>>

\* lines 234-236: the artifact of the section is written
WriteOk ==
  /\ pc = "write"
  /\ written' = Append(written, [file |-> outputFile(section), body |-> markdown])
  /\ tree' = tree \cup {outputFile(section)}
  /\ idx' = idx + 1
  /\ pc' = "section"
  /\ UNCHANGED <<variant, argvTree, configExists, configContent, config, pi, files,
                 failedPats, markdown, ioFails, resolved, exitCode, faults, normVars, auxVars>>

\* lines 235, 243-246: fs.writeFile rejects and so does main
WriteFail ==
  /\ pc = "write"
  /\ Fault
  /\ ioFails' = ioFails \cup {<<"write", outputFile(section)>>}
  /\ pc' = onMainRejected.pc /\ exitCode' = onMainRejected.exitCode
  /\ UNCHANGED <<variant, argvTree, configExists, configContent, tree, config, idx, pi,
                 files, failedPats, markdown, written, resolved, normVars, auxVars>>

Next ==
  \/ TreeModeOk \/ TreeModeFail
  \/ ConfigMissing \/ ReadConfig
  \/ BeginSection \/ Finish
  \/ IncludeOk \/ IncludeFail
  \/ ExcludeOk \/ ExcludeFail
  \/ SkipSection \/ GenerateOk \/ GenerateFail
  \/ WriteOk \/ WriteFail

Spec == Init /\ [][Next]_vars

SpecAll == InitAll /\ [][Next]_vars

-----------------------------------------------------------------------------
(* Properties of getMatchingFiles *)

\* the paths of the project tree
nodeIndexJs == <<"node_modules", "/", "pkg-a", "/", "index", ".js">>

isExplicit(p) == startsWith(p, "+")

\* file f matches the glob of some exclude pattern of the current section
excludedBySection(f) == \E j \in DOMAIN excludePatterns : PathMatch(excludePatterns[j], f)

\* C1: when getMatchingFiles returns, every regular file of the tree that
\* matches the glob of a '+'-prefixed pattern of the section (whose glob call
\* did not throw) and matches no exclude pattern of the section is in the
\* returned list, whether or not the Ignore Catalogue covers it.
C1_ExplicitIncludeOverride ==
  pc = "resolved" =>
    \A k \in DOMAIN includePatterns :
      (isExplicit(includePatterns[k]) /\ <<"include", k>> \notin failedPats) =>
        \A f \in tree :
          (PathMatch(slice1(includePatterns[k]), f) /\ ~excludedBySection(f))
            => f \in Range(files)

\* a section with '+node_modules/pkg-a/**/*.js' and the catalogue-suppressed
\* 'node_modules/**/*.js' returned node_modules/pkg-a/index.js
C1_Witness ==
  /\ pc = "resolved"
  /\ nodeIndexJs \in CatalogueIgnored
  /\ nodeIndexJs \in Range(files)
  /\ \E k \in DOMAIN includePatterns : isExplicit(includePatterns[k])
  /\ \E k \in DOMAIN includePatterns :
       ~isExplicit(includePatterns[k]) /\ PathMatch(includePatterns[k], nodeIndexJs)

\* C2: when getMatchingFiles returns for a section whose include patterns are
\* all normal (no '+'), no returned path matches an Ignore Catalogue entry.
C2_NormalRespectsCatalogue ==
  (pc = "resolved" /\ \A k \in DOMAIN includePatterns : ~isExplicit(includePatterns[k]))
    => \A i \in DOMAIN files : files[i] \notin CatalogueIgnored

\* C3: when getMatchingFiles returns, no file of the tree that matches the
\* glob of an exclude pattern of the section (whose glob call did not throw)
\* is in the returned list, wherever the exclude line stands in the section,
\* whichever include produced the file and whether or not the catalogue
\* covers it.
C3_ExcludeAlwaysWins ==
  pc = "resolved" =>
    \A j \in DOMAIN excludePatterns :
      <<"exclude", j>> \notin failedPats =>
        \A f \in tree : PathMatch(excludePatterns[j], f) => f \notin Range(files)

\* the exclude line comes first in the section, an explicit include that
\* follows it matched node_modules/pkg-a/index.js, and the file is absent
C3_Witness ==
  /\ pc = "resolved"
  /\ failedPats = {}
  /\ patterns # <<>> /\ isExclude(patterns[1])
  /\ \E k \in DOMAIN includePatterns :
       isExplicit(includePatterns[k]) /\ PathMatch(slice1(includePatterns[k]), nodeIndexJs)
  /\ nodeIndexJs \in tree /\ nodeIndexJs \in CatalogueIgnored
  /\ excludedBySection(nodeIndexJs)
  /\ nodeIndexJs \notin Range(files)

\* C4: the list getMatchingFiles returns holds each path at most once, and so
\* does the rendered body of the section.
C4_NoDuplicatePaths ==
  /\ pc = "resolved" => \A i, j \in DOMAIN files : files[i] = files[j] => i = j
  /\ pc = "write" => \A i, j \in DOMAIN markdown :
                        markdown[i].file = markdown[j].file => i = j

\* what getMatchingFiles returns when the glob calls recorded in failed threw
\* and every other pattern was resolved: the patterns in failed dropped
RECURSIVE includeFrom(_, _, _)
includeFrom(k, acc, failed) ==
  IF k > Len(includePatterns) THEN acc
  ELSE includeFrom(k + 1,
                   IF <<"include", k>> \in failed THEN acc
                   ELSE acc \o includeGlob(variant, includePatterns[k], tree),
                   failed)

RECURSIVE excludeFrom(_, _, _)
excludeFrom(k, acc, failed) ==
  IF k > Len(excludePatterns) THEN acc
  ELSE excludeFrom(k + 1,
                   IF <<"exclude", k>> \in failed THEN acc
                   ELSE filterExcluded(acc, excludeGlob(variant, excludePatterns[k], tree)),
                   failed)

\* C7: a glob call that throws leaves the accumulated list as it was and the
\* loop goes on: the list returned is the one the section's other patterns
\* give, and glob failures alone never end the run.
C7_PatternErrorContained ==
  /\ pc = "resolved" =>
       files = excludeFrom(1, includeFrom(1, <<>>, failedPats), failedPats)
  /\ (pc = "exit" /\ failedPats # {}) => ioFails # {}

\* the first include pattern of a section threw, a later one was resolved and
\* its matches were returned
C7_Witness ==
  /\ pc = "resolved"
  /\ <<"include", 1>> \in failedPats
  /\ Len(includePatterns) > 1
  /\ files # <<>>

-----------------------------------------------------------------------------
(* Properties of main *)

finished == pc \in {"done", "exit"}

wroteArtifact(name) == \E i \in DOMAIN written : written[i].file = outputFile(name)

nothingRan == config = <<>> /\ resolved = <<>> /\ written = <<>> /\ files = <<>>
                /\ pc \in {"start", "exit"}

\* C5 as stated: with no '.ai-kb-config' the run ends with exit status 1 and
\* resolves, reads and writes nothing.
C5_MissingConfigStopsRun ==
  ~configExists => /\ nothingRan
                   /\ finished => exitCode = 1

\* C5 amended: the same, for every run that is not a --tree run.
C5_MissingConfigStopsGenerateRun ==
  (~configExists /\ ~treeMode) => /\ nothingRan
                                  /\ finished => exitCode = 1

\* a run without configuration file has ended with status 1
C5_Witness == ~configExists /\ ~treeMode /\ pc = "exit" /\ exitCode = 1

\* C6: at the end of a run the artifact of a configured section was written
\* exactly when the file list resolved for the section is non-empty.
C6_ArtifactIffMatches ==
  (finished /\ configExists /\ ~treeMode) =>
    \A i \in DOMAIN resolved :
      wroteArtifact(resolved[i].section) <=> resolved[i].files # <<>>

\* C8: a failed read of one file of a section does not end the run.
C8_ReadErrorContained ==
  (\E x \in ioFails : x[1] = "read") => pc # "exit"

\* C9: a failed write of one section's artifact does not end the run, and the
\* sections declared after it are still resolved.
C9_WriteErrorContained ==
  (\E x \in ioFails : x[1] = "write") =>
     /\ pc # "exit"
     /\ finished => Len(resolved) = Len(entries)

-----------------------------------------------------------------------------
(* removeWhitespace applied to arbitrary contents *)

ContentAtoms == {" ", "\n", "(", ";", ",", "x"}

Contents == UNION { [1..n -> ContentAtoms] : n \in 0..MaxContent }

InitNorm ==
  /\ content \in Contents
  /\ sensitive \in BOOLEAN
  /\ normalized = <<>>
  /\ variant = "plain" /\ argvTree = FALSE /\ configExists = FALSE
  /\ configContent = <<>> /\ tree = {}
  /\ pc = "norm" /\ config = <<>> /\ idx = 0 /\ pi = 0 /\ files = <<>>
  /\ failedPats = {} /\ markdown = <<>> /\ ioFails = {} /\ written = <<>>
  /\ resolved = <<>> /\ exitCode = -1 /\ faults = 0
  /\ tree0 = {} /\ fileName = <<>> /\ rendered = <<>>

\* removeWhitespace is applied to the content, then to its own result
Normalize ==
  /\ pc = "norm" /\ Len(normalized) < MaxPasses
  /\ normalized' =
       Append(normalized,
              removeWhitespace(IF normalized = <<>> THEN content
                               ELSE normalized[Len(normalized)], sensitive))
  /\ UNCHANGED <<content, sensitive, runVars, auxVars>>

NextNorm == Normalize

SpecNorm == InitNorm /\ [][NextNorm]_vars

\* C10: removeWhitespace applied to its own result, with the same flag, gives
\* that result again.
C10_NormalizeIdempotent ==
  \A i \in 2..Len(normalized) : normalized[i] = normalized[i - 1]

\* a content with a line break, a bracket and a ';' that the aggressive mode
\* changed was normalized twice
C10_Witness ==
  /\ Len(normalized) >= 2
  /\ ~sensitive
  /\ {"\n", "(", ";"} \subseteq Range(content)
  /\ normalized[1] # content

-----------------------------------------------------------------------------
(* The callback of generateMarkdown applied to arbitrary files *)

RenderAtoms == {" ", "\t", "\n", "(", ";", ",", "x"}

\* "def f():\n    return 1\n\n"
pyExample ==
  <<"def", " ", "f", "(", ")", ":", "\n", " ", " ", " ", " ", "return", " ", "1", "\n", "\n">>

\* "function f() {\n  return 1;\n}\n"
jsExample ==
  <<"function", " ", "f", "(", ")", " ", "{", "\n", " ", " ", "return", " ", "1", ";",
    "\n", "}", "\n">>

RenderContents ==
  UNION { [1..n -> RenderAtoms] : n \in 0..MaxRenderContent } \cup {pyExample, jsExample}

\* file names: one per extension, one without extension
RenderFiles == { <<"f", x>> : x \in DOMAIN ExtSlice1 } \cup { <<"Makefile">> }

InitRender ==
  /\ fileName \in RenderFiles
  /\ content \in RenderContents
  /\ rendered = <<>>
  /\ sensitive = FALSE /\ normalized = <<>>
  /\ variant = "plain" /\ argvTree = FALSE /\ configExists = FALSE
  /\ configContent = <<>> /\ tree = {} /\ tree0 = {}
  /\ pc = "render" /\ config = <<>> /\ idx = 0 /\ pi = 0 /\ files = <<>>
  /\ failedPats = {} /\ markdown = <<>> /\ ioFails = {} /\ written = <<>>
  /\ resolved = <<>> /\ exitCode = -1 /\ faults = 0

\* lines 208-214: the callback renders one file
RenderFile ==
  /\ pc = "render" /\ rendered = <<>>
  /\ rendered' = <<renderContent(fileName, content)>>
  /\ UNCHANGED <<runVars, normVars, tree0, fileName>>

NextRender == RenderFile

SpecRender == InitRender /\ [][NextRender]_vars

isSpace(a) == a \in {" ", "\t", "\r", "\n"}

\* the line cut after its last character that is not whitespace
cutRight(line) ==
  LET solid == {i \in DOMAIN line : ~isSpace(line[i])}
  IN IF solid = {} THEN <<>>
     ELSE SubSeq(line, 1, CHOOSE i \in solid : \A k \in solid : k <= i)

\* the lines of c in order, each right-trimmed, the empty ones dropped
RECURSIVE keptLines(_)
keptLines(lines) ==
  IF lines = <<>> THEN <<>>
  ELSE (IF cutRight(Head(lines)) = <<>> THEN <<>> ELSE <<cutRight(Head(lines))>>)
         \o keptLines(Tail(lines))

\* b is one line without double whitespace, without whitespace next to a
\* bracket and without whitespace after ';' or ','
compactLine(b) ==
  /\ \A i \in DOMAIN b : b[i] \notin {"\n", "\r"}
  /\ \A i \in 1..(Len(b) - 1) :
       /\ ~(isSpace(b[i]) /\ isSpace(b[i + 1]))
       /\ ~(b[i] \in {"(", ")", "{", "}", "[", "]"} /\ isSpace(b[i + 1]))
       /\ ~(isSpace(b[i]) /\ b[i + 1] \in {"(", ")", "{", "}", "[", "]"})
       /\ ~(b[i] \in {";", ","} /\ isSpace(b[i + 1]))

\* the extension of the rendered file name is one of the nine of the claim
namedSensitive ==
  /\ Len(fileName) > 1
  /\ fileName[Len(fileName)] \in
       {".py", ".yaml", ".yml", ".jade", ".haml", ".slim", ".coffee", ".pug", ".styl"}

\* C11: a file is rendered in whitespace-sensitive mode exactly when its
\* extension is one of .py .yaml .yml .jade .haml .slim .coffee .pug .styl; the
\* body is then the content's lines in order, right-trimmed, the empty ones
\* dropped; for every other file the body is one compact line; the two
\* examples of the claim give the stated results.
C11_SensitivityBranching ==
  rendered # <<>> =>
    LET b == rendered[1].body IN
    IF namedSensitive
    THEN /\ split(b, "\n") = (IF keptLines(split(content, "\n")) = <<>> THEN << <<>> >>
                              ELSE keptLines(split(content, "\n")))
         /\ content = pyExample =>
              b = <<"def", " ", "f", "(", ")", ":", "\n", " ", " ", " ", " ", "return", " ", "1">>
    ELSE /\ compactLine(b)
         /\ content = jsExample =>
              b = <<"function", " ", "f", "(", ")", "{", "return", " ", "1", ";", "}">>

\* a '.yml' file with an indented second line was rendered, line break and
\* indentation kept
C11_Witness ==
  /\ rendered # <<>>
  /\ fileName = <<"f", ".yml">>
  /\ content = <<"x", "\n", " ", "x">>
  /\ rendered[1].body = content

-----------------------------------------------------------------------------
(* readConfig applied to arbitrary configuration texts *)

\* raw lines: headers (plain, padded inside the brackets, padded outside,
\* without a name), pattern lines (plain and padded), blank lines
RawLines ==
  { <<"[", "app", "]">>, <<"[", "lib", "]">>, <<" ", "[", "lib", "]", " ">>,
    <<"[", " ", "app", " ", "]">>, <<"[", "]">>,
    <<"src/a.js">>, <<" ", "-", "src/b.js", " ">>, <<>>, <<" ">> }

RECURSIVE LineSeqs(_)
LineSeqs(n) ==
  IF n = 0 THEN { <<>> }
  ELSE LET shorter == LineSeqs(n - 1)
       IN shorter \cup { Append(ls, l) : ls \in {x \in shorter : Len(x) = n - 1}, l \in RawLines }

RawConfigTexts == { join(ls, "\n") : ls \in LineSeqs(MaxConfigLines) \ { <<>> } }

InitConfig ==
  /\ configContent \in RawConfigTexts
  /\ configExists = TRUE
  /\ pc = "config" /\ config = <<>>
  /\ variant = "plain" /\ argvTree = FALSE /\ tree = {} /\ tree0 = {}
  /\ idx = 0 /\ pi = 0 /\ files = <<>> /\ failedPats = {} /\ markdown = <<>>
  /\ ioFails = {} /\ written = <<>> /\ resolved = <<>> /\ exitCode = -1 /\ faults = 0
  /\ content = <<>> /\ sensitive = FALSE /\ normalized = <<>>
  /\ fileName = <<>> /\ rendered = <<>>

\* lines 115-129: the text is read and parsed
ParseConfig ==
  /\ pc = "config"
  /\ config' = readConfig(configContent)
  /\ pc' = "parsed"
  /\ UNCHANGED <<variant, argvTree, configExists, configContent, tree, idx, pi, files,
                 failedPats, markdown, ioFails, written, resolved, exitCode, faults,
                 normVars, auxVars>>

NextConfig == ParseConfig

SpecConfig == InitConfig /\ [][NextConfig]_vars

rawLines == split(configContent, "\n")

\* line i is a header: trimmed, it starts with '[' and ends with ']'
isHeaderAt(i) ==
  LET l == trim(rawLines[i]) IN l # <<>> /\ Head(l) = "[" /\ l[Len(l)] = "]"

\* the trimmed text between the brackets of header line i
nameAt(i) == LET l == trim(rawLines[i]) IN trim(SubSeq(l, 2, Len(l) - 1))

headerLines == {i \in DOMAIN rawLines : isHeaderAt(i)}

\* the non-blank trimmed lines, in order, after line h up to the next header
linesAfter(h) ==
  LET later == {j \in headerLines : j > h}
      stop == IF later = {} THEN Len(rawLines) + 1
              ELSE CHOOSE j \in later : \A k \in later : j <= k
  IN SelectSeq([i \in 1..(stop - h - 1) |-> trim(rawLines[h + i])], notEmpty)

\* the last header line that declares the same name as header line h
lastOf(h) ==
  CHOOSE j \in headerLines :
    /\ nameAt(j) = nameAt(h)
    /\ \A k \in headerLines : nameAt(k) = nameAt(h) => k <= j

\* C12: after readConfig every section name (the trimmed text between the
\* brackets of a header) maps to exactly the non-blank trimmed lines, in order,
\* that follow the last occurrence of its header up to the next header, and
\* nothing else is stored.
C12_SectionsHoldTheirLines ==
  pc = "parsed" =>
    Range(config) = { [key |-> nameAt(h), value |-> linesAfter(lastOf(h))] : h \in headerLines }

\* the same statement for texts whose headers have a non-empty name written
\* without whitespace next to the brackets
C12_UnpaddedNames ==
  (/\ pc = "parsed"
   /\ \A h \in headerLines :
        nameAt(h) # <<>> /\ nameAt(h) = sliceInner(trim(rawLines[h])))
  => C12_SectionsHoldTheirLines

-----------------------------------------------------------------------------
(* The order in which main processes the sections *)

OrderHeaders == { <<"[", "1", "]">>, <<"[", "2", "]">>, <<"[", "app", "]">> }

OrderLines == { <<"src", "/", "a", ".js">>, <<"-", "src", "/", "a", ".js">> }

\* configuration texts with digit-only and repeated section names
OrderTexts ==
  { join(ls, "\n") :
      ls \in { l \in UNION { [1..n -> OrderHeaders \cup OrderLines] : n \in 1..MaxLines } :
                 l[1] \in OrderHeaders } }

InitOrder == InitWith({"plain", "tree"}, OrderTexts, {SourceFiles})

SpecOrder == InitOrder /\ [][Next]_vars

\* the header lines that declare their name for the first time
firstHeaders == {h \in headerLines : \A k \in headerLines : nameAt(k) = nameAt(h) => h <= k}

\* the section names in the order in which the text declares them
RECURSIVE namesFrom(_)
namesFrom(hs) ==
  IF hs = {} THEN <<>>
  ELSE LET h == CHOOSE x \in hs : \A y \in hs : x <= y
       IN <<nameAt(h)>> \o namesFrom(hs \ {h})

declaredNames == namesFrom(firstHeaders)

resolvedNames == [i \in DOMAIN resolved |-> resolved[i].section]

hasFiles(r) == r.files # <<>>

\* the artifacts the sections resolved so far call for, in that order
dueArtifacts ==
  LET due == SelectSeq(resolved, hasFiles) IN [i \in DOMAIN due |-> outputFile(due[i].section)]

writtenFiles == [i \in DOMAIN written |-> written[i].file]

\* C13: main resolves the sections one at a time in the order in which the
\* configuration declares their headers, writes the artifacts in that order,
\* and the artifact of a section is written before the next section is resolved.
C13_DeclarationOrder ==
  (configExists /\ ~treeMode) =>
    /\ Len(resolved) <= Len(declaredNames)
    /\ resolvedNames = SubSeq(declaredNames, 1, Len(resolved))
    /\ Len(written) <= Len(dueArtifacts)
    /\ writtenFiles = SubSeq(dueArtifacts, 1, Len(written))
    /\ pc \in {"section", "include", "exclude", "resolved", "done"}
         => Len(written) = Len(dueArtifacts)

\* the same statement for configurations none of whose section names is
\* written with digits only
C13_NoDigitNames ==
  (\A h \in headerLines : ~IsIndexKey(nameAt(h))) => C13_DeclarationOrder

-----------------------------------------------------------------------------
(* Sections of one run and the artifacts the run writes *)

IndepLines ==
  { <<"src", "/", "a", ".js">>,
    <<"ai-kb-", "*", ".md">>,
    <<"+", "ai-kb-", "*", ".md">>,
    <<"-", "src", "/", "a", ".js">> }

IndepTexts ==
  { join(ls, "\n") :
      ls \in { l \in UNION { [1..n -> Headers \cup IndepLines] : n \in 1..MaxLines } :
                 l[1] \in Headers } }

\* project trees at the start of the run: without artifacts, and with the
\* artifact an earlier run left behind
IndepTrees == { SourceFiles, SourceFiles \cup {outputFile(<<"lib">>)} }

InitIndep == InitWith({"plain", "tree"}, IndepTexts, IndepTrees)

SpecIndep == InitIndep /\ [][Next]_vars

\* the include patterns incs resolved one after the other on tree t
RECURSIVE includeAll(_, _, _)
includeAll(incs, acc, t) ==
  IF incs = <<>> THEN acc
  ELSE includeAll(Tail(incs), acc \o includeGlob(variant, Head(incs), t), t)

\* the exclude patterns excs applied one after the other on tree t
RECURSIVE excludeAll(_, _, _)
excludeAll(excs, acc, t) ==
  IF excs = <<>> THEN acc
  ELSE excludeAll(Tail(excs), filterExcluded(acc, excludeGlob(variant, Head(excs), t)), t)

\* what the pattern lines pats alone give on tree t
ownResult(pats, t) ==
  excludeAll(excludePatternsOf(pats), includeAll(includePatternsOf(pats), <<>>, t), t)

isolated(r) == r.failed = {} => r.files = ownResult(GetKey(config, r.section), tree0)

\* C14: the list resolved for a section is the one its own pattern lines give
\* on the project tree as it was when the run started, whatever was declared,
\* resolved and written before it in the same run.
C14_SectionsIsolated ==
  \A i \in DOMAIN resolved : isolated(resolved[i])

\* the same statement for sections without explicit-include pattern
C14_WithoutExplicitInclude ==
  \A i \in DOMAIN resolved :
    (\A k \in DOMAIN GetKey(config, resolved[i].section) :
       ~startsWith(GetKey(config, resolved[i].section)[k], "+"))
    => isolated(resolved[i])

====
